---- MODULE Spec2Model ----
(***************************************************************************)
(* Model of the personal expense tracker                                   *)
(* (src/src/personal_expense_tracker/modules.py).                          *)
(*                                                                         *)
(* Texts typed by the user are sequences of one-character strings, so that *)
(* strip, lower, startswith, isdigit, int, float and strptime are computed *)
(* character by character as Python computes them.  Amounts (Python        *)
(* floats) are integers counting tenths: 5.0 is 50, -5.0 is -50.           *)
(* The store file is the sequence of its newline-terminated lines; a line  *)
(* is either the empty text <<>> or a serialized JSON object.              *)
(***************************************************************************)
EXTENDS Integers, Sequences, FiniteSets, TLC

\* ------------------------------------------------------------------------
\* Bounds
\* ------------------------------------------------------------------------
\* longest store file (in lines) that add_expense still extends
MaxLines == 1
\* longest store file (in lines) among the hand-edited ones
MaxEditedLines == 2
\* number of lines of the stores that the reports are run against
MaxRecords == 3

\* ------------------------------------------------------------------------
\* Text helpers (Python str methods)
\* ------------------------------------------------------------------------
AsciiDigits == {"0", "1", "2", "3", "4", "5", "6", "7", "8", "9"}

\* characters for which str.isdigit() is True: the ASCII digits and other
\* Unicode digits such as SUPERSCRIPT TWO (U+00B2, written Sup2 here), which
\* int() and float() reject
Sup2 == "sup2"

DigitChars == AsciiDigits \cup {Sup2}

Whitespace == {" "}

DigitVal(c) ==
    CASE c = "0" -> 0 [] c = "1" -> 1 [] c = "2" -> 2 [] c = "3" -> 3
      [] c = "4" -> 4 [] c = "5" -> 5 [] c = "6" -> 6 [] c = "7" -> 7
      [] c = "8" -> 8 [] c = "9" -> 9

DigitChar(n) ==
    CASE n = 0 -> "0" [] n = 1 -> "1" [] n = 2 -> "2" [] n = 3 -> "3"
      [] n = 4 -> "4" [] n = 5 -> "5" [] n = 6 -> "6" [] n = 7 -> "7"
      [] n = 8 -> "8" [] n = 9 -> "9"

RECURSIVE lstrip(_)
lstrip(s) == IF s # <<>> /\ Head(s) \in Whitespace THEN lstrip(Tail(s)) ELSE s

RECURSIVE rstrip(_)
rstrip(s) ==
    IF s # <<>> /\ s[Len(s)] \in Whitespace
    THEN rstrip(SubSeq(s, 1, Len(s) - 1)) ELSE s

\* str.strip()
strip(s) == rstrip(lstrip(s))

\* str.isdigit(): non-empty and every character is a digit character
isdigit(s) == s # <<>> /\ \A k \in 1..Len(s) : s[k] \in DigitChars

\* str.replace(".", "", 1): drop the first "."
RECURSIVE replace_first_dot(_)
replace_first_dot(s) ==
    IF s = <<>> THEN <<>>
    ELSE IF Head(s) = "." THEN Tail(s)
    ELSE <<Head(s)>> \o replace_first_dot(Tail(s))

UpperLetters ==
    <<"A","B","C","D","E","F","G","H","I","J","K","L","M",
      "N","O","P","Q","R","S","T","U","V","W","X","Y","Z">>

LowerLetters ==
    <<"a","b","c","d","e","f","g","h","i","j","k","l","m",
      "n","o","p","q","r","s","t","u","v","w","x","y","z">>

LowerChar(c) ==
    IF \E k \in 1..26 : UpperLetters[k] = c
    THEN LowerLetters[CHOOSE k \in 1..26 : UpperLetters[k] = c]
    ELSE c

UpperChar(c) ==
    IF \E k \in 1..26 : LowerLetters[k] = c
    THEN UpperLetters[CHOOSE k \in 1..26 : LowerLetters[k] = c]
    ELSE c

\* str.lower()
lower(s) == [k \in 1..Len(s) |-> LowerChar(s[k])]

\* str.upper()
upper(s) == [k \in 1..Len(s) |-> UpperChar(s[k])]

\* str.startswith(prefix)
startswith(s, prefix) ==
    /\ Len(prefix) <= Len(s)
    /\ SubSeq(s, 1, Len(prefix)) = prefix

\* value of a sequence of ASCII digits
RECURSIVE DigitsValue(_)
DigitsValue(s) ==
    IF s = <<>> THEN 0
    ELSE 10 * DigitsValue(SubSeq(s, 1, Len(s) - 1)) + DigitVal(s[Len(s)])

AllAscii(s) == \A k \in 1..Len(s) : s[k] \in AsciiDigits

\* a conversion either returns a value or raises ValueError
ValueError == "ValueError"

Returned(v) == <<"returned", v>>

Raised == <<ValueError>>

IsRaised(r) == r[1] = ValueError

ValueOf(r) == r[2]

\* position of the first character c of s at or after k, 0 if there is none
RECURSIVE FindChar(_, _, _)
FindChar(s, c, k) ==
    IF k > Len(s) THEN 0 ELSE IF s[k] = c THEN k ELSE FindChar(s, c, k + 1)

\* int(text): surrounding whitespace and one sign allowed, then ASCII digits
int(text) ==
    LET s == strip(text)
        signed == s # <<>> /\ Head(s) \in {"-", "+"}
        body == IF signed THEN Tail(s) ELSE s
    IN  IF body = <<>> \/ ~AllAscii(body) THEN Raised
        ELSE IF signed /\ Head(s) = "-" THEN Returned(0 - DigitsValue(body))
        ELSE Returned(DigitsValue(body))

\* float(text), in tenths, for texts over digits, sign, "." and other
\* characters that are no part of a number; at most one fractional digit
float(text) ==
    LET s == strip(text)
        signed == s # <<>> /\ Head(s) \in {"-", "+"}
        body == IF signed THEN Tail(s) ELSE s
        dot == FindChar(body, ".", 1)
        whole == IF dot = 0 THEN body ELSE SubSeq(body, 1, dot - 1)
        frac == IF dot = 0 THEN <<>> ELSE SubSeq(body, dot + 1, Len(body))
        tenths == 10 * DigitsValue(whole)
                    + (IF frac = <<>> THEN 0 ELSE DigitVal(frac[1]))
    IN  IF \/ whole \o frac = <<>>
           \/ ~AllAscii(whole \o frac)
        THEN Raised
        ELSE IF signed /\ Head(s) = "-" THEN Returned(0 - tenths)
        ELSE Returned(tenths)

\* ------------------------------------------------------------------------
\* Dates (datetime)
\* ------------------------------------------------------------------------
IsLeap(y) == (y % 4 = 0 /\ y % 100 # 0) \/ y % 400 = 0

DaysInMonth(y, m) ==
    CASE m \in {1, 3, 5, 7, 8, 10, 12} -> 31
      [] m \in {4, 6, 9, 11} -> 30
      [] m = 2 -> IF IsLeap(y) THEN 29 ELSE 28

RECURSIVE DaysBeforeMonth(_, _)
DaysBeforeMonth(y, m) ==
    IF m = 1 THEN 0 ELSE DaysBeforeMonth(y, m - 1) + DaysInMonth(y, m - 1)

\* date.toordinal(): 0001-01-01 is day 1
toordinal(y, m, d) ==
    LET p == y - 1
    IN  p * 365 + (p \div 4) - (p \div 100) + (p \div 400)
          + DaysBeforeMonth(y, m) + d

\* date.weekday(): Monday is 0
weekday(y, m, d) == (toordinal(y, m, d) + 6) % 7

\* ordinal of the Monday that starts ISO week 1 of year y
iso_week1_monday(y) ==
    LET first_day == toordinal(y, 1, 1)
        first_weekday == (first_day + 6) % 7
        week1_monday == first_day - first_weekday
    IN  IF first_weekday > 3 THEN week1_monday + 7 ELSE week1_monday

\* date.isocalendar() as <<ISO year, ISO week, ISO weekday>>
isocalendar(y, m, d) ==
    LET today == toordinal(y, m, d)
        week1_monday == iso_week1_monday(y)
        week == (today - week1_monday) \div 7
        day == (today - week1_monday) % 7
    IN  IF week < 0
        THEN <<y - 1, ((today - iso_week1_monday(y - 1)) \div 7) + 1, day + 1>>
        ELSE IF week >= 52 /\ today >= iso_week1_monday(y + 1)
        THEN <<y + 1, 1, day + 1>>
        ELSE <<y, week + 1, day + 1>>

\* the parts of s between the "-" characters
RECURSIVE SplitDash(_)
SplitDash(s) ==
    LET at == FindChar(s, "-", 1)
    IN  IF at = 0 THEN <<s>>
        ELSE <<SubSeq(s, 1, at - 1)>> \o SplitDash(SubSeq(s, at + 1, Len(s)))

\* datetime.strptime(text, "%Y-%m-%d") as <<year, month, day>>, for texts
\* over digits, "-" and characters that are no part of a date: four digits,
\* then one or two digits each for month and day, which must name a day of
\* the calendar; anything else raises ValueError
strptime(text) ==
    LET parts == SplitDash(text)
    IN  IF \/ Len(parts) # 3
           \/ \E k \in 1..Len(parts) : parts[k] = <<>> \/ ~AllAscii(parts[k])
        THEN Raised
        ELSE LET y == DigitsValue(parts[1])
                 m == DigitsValue(parts[2])
                 d == DigitsValue(parts[3])
             IN  IF /\ Len(parts[1]) = 4
                    /\ Len(parts[2]) \in 1..2
                    /\ Len(parts[3]) \in 1..2
                    /\ y >= 1
                    /\ m \in 1..12
                    /\ d >= 1
                    /\ d <= DaysInMonth(y, m)
                 THEN Returned(<<y, m, d>>)
                 ELSE Raised

\* n written with at least w digits, zero-padded
RECURSIVE Digits(_, _)
Digits(n, w) ==
    IF w <= 1 /\ n < 10 THEN <<DigitChar(n)>>
    ELSE Digits(n \div 10, w - 1) \o <<DigitChar(n % 10)>>

\* date.strftime("%Y-%m-%d")
strftime(ymd) ==
    Digits(ymd[1], 4) \o <<"-">> \o Digits(ymd[2], 2) \o <<"-">> \o Digits(ymd[3], 2)

\* the names of calendar.month_name[1..12]
month_name ==
    << <<"J","a","n","u","a","r","y">>, <<"F","e","b","r","u","a","r","y">>,
       <<"M","a","r","c","h">>, <<"A","p","r","i","l">>, <<"M","a","y">>,
       <<"J","u","n","e">>, <<"J","u","l","y">>, <<"A","u","g","u","s","t">>,
       <<"S","e","p","t","e","m","b","e","r">>, <<"O","c","t","o","b","e","r">>,
       <<"N","o","v","e","m","b","e","r">>, <<"D","e","c","e","m","b","e","r">> >>

\* ------------------------------------------------------------------------
\* Inputs
\* ------------------------------------------------------------------------
Yes == <<"y">>

\* typed at the prompts of add_expense
CategoryInputs == { <<>>, <<" ">>, <<" ", "F">> }

ItemInputs == { <<>>, <<"i", " ">> }

AmountInputs == { <<>>, <<"5">>, <<"-", "5">>, <<Sup2>> }

\* typed at the prompts of update_expense
NewCategoryInputs == { <<>>, <<"F">> }

NewItemInputs == { <<>>, <<"i">> }

NewAmountInputs == { <<>>, <<"-", "5">>, <<"x">> }

DateInputs ==
    { <<>>,
      <<"2","0","2","4","-","0","1","-","0","5">>,
      <<"2","0","2","4","-","0","2","-","3","0">> }

\* what datetime.today() can return
TodayValues == { <<2024, 2, 1>> }

IdInputs == { <<DigitChar(n)>> : n \in 0..(MaxLines + 2) } \cup { <<"x">> }

MoreInputs == { Yes, <<"n">> }

\* ------------------------------------------------------------------------
\* Line store
\* ------------------------------------------------------------------------
Record(category, item, amount, date) ==
    [category |-> category, item |-> item, amount |-> amount, date |-> date]

\* json.dumps(data): the object's members in insertion order
json_dumps(data) ==
    << <<"category", data.category>>, <<"item", data.item>>,
       <<"amount", data.amount>>, <<"date", data.date>> >>

Member(line, key) == (CHOOSE k \in 1..Len(line) : line[k][1] = key)

\* json.loads(line)
json_loads(line) ==
    [category |-> line[Member(line, "category")][2],
     item |-> line[Member(line, "item")][2],
     amount |-> line[Member(line, "amount")][2],
     date |-> line[Member(line, "date")][2]]

\* line.strip() is non-empty
IsRecordLine(line) == line # <<>>

IndexError == <<"IndexError">>

\* the position (from 1) that the Python index j names in a list of length n:
\* a negative index counts from the end; 0 if j is out of range
Position(j, n) ==
    LET at == IF j < 0 THEN j + n + 1 ELSE j + 1
    IN  IF at \in 1..n THEN at ELSE 0

\* list[j]
getitem(list, j) ==
    IF Position(j, Len(list)) = 0 THEN IndexError
    ELSE Returned(list[Position(j, Len(list))])

\* line_number is <<>> for None and <<n>> for the integer n
file_saving_helper(data, f, line_number) ==
    IF line_number = <<>>
    THEN Returned(f \o <<json_dumps(data)>>)
    ELSE LET lines == f
             at == Position(line_number[1] - 1, Len(lines))
         IN  IF at # 0
             THEN Returned([lines EXCEPT ![at] = json_dumps(data)])
             ELSE IndexError

RECURSIVE MapLoads(_)
MapLoads(lines) ==
    IF lines = <<>> THEN <<>>
    ELSE <<json_loads(Head(lines))>> \o MapLoads(Tail(lines))

loading_data_helper(f) == MapLoads(SelectSeq(f, IsRecordLine))

\* returns the text, or the empty text for False
date_validation_helper(date) ==
    IF IsRaised(strptime(date)) THEN <<>> ELSE date

\* ------------------------------------------------------------------------
\* State
\* ------------------------------------------------------------------------
VARIABLES
    file,       \* the lines of the store file (<<>>: missing or empty file)
    pc,         \* where the caller is: "menu", "add" or "update"
    expenses,   \* the records update_expense loaded when it was entered
    last        \* the last operation: its inputs and its outcome

vars == <<file, pc, expenses, last>>

NoRecord == Record(<<>>, <<>>, 0, <<>>)

NoInput == Record(<<>>, <<>>, <<>>, <<>>)

NoDate == <<0, 0, 0>>

\* op: the operation; outcome: how it ended; id: the text typed at the ID
\* prompt; input: the texts typed at the field prompts; today: the date the
\* clock gave; rec: the record written
Last(op, outcome, id, input, today, rec) ==
    [op |-> op, outcome |-> outcome, id |-> id, input |-> input,
     today |-> today, rec |-> rec,
     query |-> <<>>, key |-> <<>>, entries |-> <<>>, totals |-> <<0, 0>>]

\* ------------------------------------------------------------------------
\* add_expense: one pass of its loop
\*
\* An exception that neither the function nor main.py catches ends the
\* program; the outcome records it, and pc is the menu of the program started
\* again on the same store file.
\* ------------------------------------------------------------------------
AddExpense(category_in, item_in, amount_in, date_in, today, more_in) ==
    LET category == strip(category_in)
        item == strip(item_in)
        amount_input == IF strip(amount_in) # <<>> THEN strip(amount_in) ELSE <<"0">>
        date_input == strip(date_in)
        input == Record(category_in, item_in, amount_in, date_in)
        amount == IF isdigit(replace_first_dot(amount_input))
                  THEN float(amount_input) ELSE Returned(0)
        validated == date_validation_helper(date_input)
        date == IF validated = <<>> THEN strftime(today) ELSE validated
    IN  /\ pc \in {"menu", "add"}
        /\ Len(file) < MaxLines
        /\ UNCHANGED expenses
        /\ IF category = <<>> \/ item = <<>>
           THEN /\ file' = file
                /\ pc' = "add"
                /\ last' = Last("add", "rejected", <<>>, input, NoDate, NoRecord)
           ELSE IF IsRaised(amount)
           THEN /\ file' = file
                /\ pc' = "menu"
                /\ last' = Last("add", ValueError, <<>>, input, today, NoRecord)
           ELSE LET expense_data == Record(category, item, ValueOf(amount), date)
                IN  /\ file' = ValueOf(file_saving_helper(expense_data, file, <<>>))
                    /\ pc' = IF strip(lower(more_in)) = Yes THEN "add" ELSE "menu"
                    /\ last' = Last("add", "added", <<>>, input, today, expense_data)

\* ------------------------------------------------------------------------
\* update_expense
\* ------------------------------------------------------------------------
\* the load and listing on entry
UpdateBegin ==
    /\ pc = "menu"
    /\ expenses' = loading_data_helper(file)
    /\ pc' = "update"
    /\ last' = Last("update", "listed", <<>>, NoInput, NoDate, NoRecord)
    /\ UNCHANGED file

\* the range check without its lower bound
IdOutOfRange_NoLowerBound(idx, count) == idx > count

\* idx < 1 or idx > len(expenses)
IdOutOfRange(idx, count) == idx < 1 \/ idx > count

\* one pass of the loop that stops at the ID prompt
UpdateInvalidId(id_in) ==
    LET idx == int(id_in)
    IN  /\ pc = "update"
        /\ IF IsRaised(idx) THEN TRUE
           ELSE IdOutOfRange(ValueOf(idx), Len(expenses))
        /\ pc' = "menu"
        /\ expenses' = <<>>
        /\ last' = Last("update",
                        IF IsRaised(idx) THEN "not_a_number" ELSE "invalid_id",
                        id_in, NoInput, NoDate, NoRecord)
        /\ UNCHANGED file

\* input(...) or current
OrCurrent(text, current) == IF text # <<>> THEN text ELSE current

\* one pass of the loop that gets past the ID prompt
UpdateEntry(id_in, category_in, item_in, amount_in, date_in, more_in) ==
    LET idx == int(id_in)
        input == Record(category_in, item_in, amount_in, date_in)
        again == strip(lower(more_in)) = Yes
        Fault(name) ==
            /\ file' = file
            /\ pc' = "menu"
            /\ expenses' = <<>>
            /\ last' = Last("update", name, id_in, input, NoDate, NoRecord)
    IN  /\ pc = "update"
        /\ IF IsRaised(idx) THEN FALSE
           ELSE ~IdOutOfRange(ValueOf(idx), Len(expenses))
        /\ IF getitem(expenses, ValueOf(idx) - 1) = IndexError
           THEN Fault("IndexError")
           ELSE
             LET expense == ValueOf(getitem(expenses, ValueOf(idx) - 1))
                 category == OrCurrent(category_in, expense.category)
                 item == OrCurrent(item_in, expense.item)
                 amount == IF amount_in # <<>> THEN float(amount_in)
                           ELSE Returned(expense.amount)
                 date == OrCurrent(date_in, expense.date)
                 updated_expense ==
                     Record(category, item, ValueOf(amount),
                            OrCurrent(date_validation_helper(date), expense.date))
                 saved == file_saving_helper(updated_expense, file, <<ValueOf(idx)>>)
             IN  IF IsRaised(amount) THEN Fault(ValueError)
                 ELSE IF saved = IndexError THEN Fault("IndexError")
                 ELSE /\ file' = ValueOf(saved)
                      /\ pc' = IF again THEN "update" ELSE "menu"
                      /\ expenses' = IF again THEN expenses ELSE <<>>
                      /\ last' = Last("update", "updated", id_in, input,
                                      NoDate, updated_expense)

\* ------------------------------------------------------------------------
\* The program on a store that only it has written
\* ------------------------------------------------------------------------
Init ==
    /\ file = <<>>
    /\ pc = "menu"
    /\ expenses = <<>>
    /\ last = Last("none", "none", <<>>, NoInput, NoDate, NoRecord)

Add ==
    \E c \in CategoryInputs, i \in ItemInputs, a \in AmountInputs, d \in DateInputs,
       t \in TodayValues, m \in MoreInputs : AddExpense(c, i, a, d, t, m)

InvalidId == \E n \in IdInputs : UpdateInvalidId(n)

Update ==
    \E n \in IdInputs, c \in NewCategoryInputs, i \in NewItemInputs,
       a \in NewAmountInputs, d \in DateInputs, m \in MoreInputs : UpdateEntry(n, c, i, a, d, m)

Next == Add \/ UpdateBegin \/ InvalidId \/ Update

Spec == Init /\ [][Next]_vars

\* ------------------------------------------------------------------------
\* Reports
\* ------------------------------------------------------------------------
\* the datetime of a record's date (the date parses)
DateOf(e) == ValueOf(strptime(e.date))

\* the order of two datetimes is the order of their day numbers
SortKey(e) == LET dt == DateOf(e) IN toordinal(dt[1], dt[2], dt[3])

\* sorted() computes the key of every element once; decorated is the list
\* of <<key, element>> pairs
RECURSIVE Decorate(_)
Decorate(list) ==
    IF list = <<>> THEN <<>>
    ELSE <<<<SortKey(Head(list)), Head(list)>>>> \o Decorate(Tail(list))

\* a sort that puts a pair in front of the pairs of equal key
RECURSIVE Insert_TiesFirst(_, _, _)
Insert_TiesFirst(acc, pair, Reverse) ==
    IF acc = <<>> THEN <<pair>>
    ELSE IF (IF Reverse THEN Head(acc)[1] > pair[1] ELSE Head(acc)[1] < pair[1])
    THEN <<Head(acc)>> \o Insert_TiesFirst(Tail(acc), pair, Reverse)
    ELSE <<pair>> \o acc

\* sorted() is stable, also with reverse=True: a pair goes behind every pair
\* that does not have to come after it
RECURSIVE Insert(_, _, _)
Insert(acc, pair, Reverse) ==
    IF acc = <<>> THEN <<pair>>
    ELSE IF (IF Reverse THEN Head(acc)[1] >= pair[1] ELSE Head(acc)[1] <= pair[1])
    THEN <<Head(acc)>> \o Insert(Tail(acc), pair, Reverse)
    ELSE <<pair>> \o acc

RECURSIVE SortPairs(_, _)
SortPairs(decorated, Reverse) ==
    IF decorated = <<>> THEN <<>>
    ELSE Insert(SortPairs(SubSeq(decorated, 1, Len(decorated) - 1), Reverse),
                decorated[Len(decorated)], Reverse)

sorted(list, Reverse) ==
    LET pairs == SortPairs(Decorate(list), Reverse)
    IN  [k \in 1..Len(pairs) |-> pairs[k][2]]

\* raises ValueError when the key function cannot parse a record's date
date_based_sorting_helper(f, Reverse) ==
    LET loaded == loading_data_helper(f)
    IN  IF \E k \in 1..Len(loaded) : IsRaised(strptime(loaded[k].date))
        THEN Raised
        ELSE Returned(sorted(loaded, Reverse))

\* month is <<"int", n>> or <<"str", text>>
month_normalizer_helper(month) ==
    IF month[1] = "int" THEN Returned(month[2])
    ELSE LET month_str == lower(month[2])
             hits == {i \in 1..12 : startswith(lower(month_name[i]), month_str)}
         IN  IF hits = {} THEN Raised
             ELSE Returned(CHOOSE i \in hits : \A j \in hits : i <= j)

\* the test of the weekly filter
InWeek(e, year, week) ==
    LET dt == DateOf(e)
    IN  /\ dt[1] = year
        /\ isocalendar(dt[1], dt[2], dt[3])[2] = week

weekly_report_generator(year, week, f) ==
    LET expenses_ == date_based_sorting_helper(f, TRUE)
    IN  IF IsRaised(expenses_) THEN Raised
        ELSE Returned(SelectSeq(ValueOf(expenses_), LAMBDA e : InWeek(e, year, week)))

\* the key of the bucket that a record goes to
BucketKey(e) == LET dt == DateOf(e) IN <<dt[1], dt[2], month_name[dt[2]]>>

\* the keys of the defaultdict in insertion order
RECURSIVE BucketKeys(_)
BucketKeys(list) ==
    IF list = <<>> THEN <<>>
    ELSE LET front == BucketKeys(SubSeq(list, 1, Len(list) - 1))
             key == BucketKey(list[Len(list)])
         IN  IF \E k \in 1..Len(front) : front[k] = key THEN front
             ELSE Append(front, key)

\* the key lookup without its test of the year
KeyMatches_AnyYear(k, year, month) == k[2] = month

\* the test of the key lookup
KeyMatches(k, year, month) == k[1] = year /\ k[2] = month

\* returns <<key, entries>>; the key None is <<>>
monthly_report_generator(year, month, f) ==
    LET expenses_ == date_based_sorting_helper(f, TRUE)
        normal == month_normalizer_helper(month)
    IN  IF IsRaised(expenses_) \/ IsRaised(normal) THEN Raised
        ELSE LET keys == BucketKeys(ValueOf(expenses_))
                 found == SelectSeq(keys, LAMBDA k : KeyMatches(k, year, ValueOf(normal)))
                 key == IF found = <<>> THEN <<>> ELSE Head(found)
             IN  Returned(<<key,
                            SelectSeq(ValueOf(expenses_), LAMBDA e : BucketKey(e) = key)>>)

yearly_report_generator(year, f) ==
    LET expenses_ == date_based_sorting_helper(f, TRUE)
    IN  IF IsRaised(expenses_) THEN Raised
        ELSE Returned(SelectSeq(ValueOf(expenses_), LAMBDA e : DateOf(e)[1] = year))

RECURSIVE Sum(_)
Sum(items) == IF items = <<>> THEN 0 ELSE Head(items).amount + Sum(Tail(items))

total_return_helper(items) == <<Len(items), Sum(items)>>

\* what generate_summary shows for the entries that a generator returned
Shown(kind, query, key, entries) ==
    [op |-> kind,
     outcome |-> IF entries = <<>> THEN "no_expense" ELSE "report",
     id |-> <<>>, input |-> NoInput, today |-> NoDate, rec |-> NoRecord,
     query |-> query, key |-> key, entries |-> entries,
     totals |-> total_return_helper(entries)]

\* what it shows when the try block catches an exception, or for a choice
\* that is no report
NotShown(kind, outcome, query) ==
    [op |-> kind, outcome |-> outcome,
     id |-> <<>>, input |-> NoInput, today |-> NoDate, rec |-> NoRecord,
     query |-> query, key |-> <<>>, entries |-> <<>>, totals |-> <<0, 0>>]

\* generate_summary with the texts typed at its prompts
generate_summary(choice_in, year_in, period_in) ==
    LET choice == strip(choice_in)
        query == <<choice_in, year_in, period_in>>
        year == int(strip(year_in))
    IN  /\ pc = "menu"
        /\ pc' = "menu"
        /\ UNCHANGED <<file, expenses>>
        /\ last' =
             CASE choice = <<"1">> ->
                    LET week == int(strip(period_in))
                    IN  IF IsRaised(year) \/ IsRaised(week)
                        THEN NotShown("weekly", "error", query)
                        ELSE LET entries == weekly_report_generator(
                                                ValueOf(year), ValueOf(week), file)
                             IN  IF IsRaised(entries)
                                 THEN NotShown("weekly", "error", query)
                                 ELSE Shown("weekly", query, <<>>, ValueOf(entries))
               [] choice = <<"2">> ->
                    LET input_month == strip(period_in)
                        month == IF isdigit(input_month) THEN int(input_month)
                                 ELSE Returned(input_month)
                    IN  IF IsRaised(year) \/ IsRaised(month)
                        THEN NotShown("monthly", "error", query)
                        ELSE LET got == monthly_report_generator(
                                            ValueOf(year),
                                            <<IF isdigit(input_month) THEN "int" ELSE "str",
                                              ValueOf(month)>>,
                                            file)
                             IN  IF IsRaised(got)
                                 THEN NotShown("monthly", "error", query)
                                 ELSE IF ValueOf(got)[1] = <<>>
                                 THEN NotShown("monthly", "no_expense", query)
                                 ELSE Shown("monthly", query, ValueOf(got)[1],
                                            ValueOf(got)[2])
               [] choice = <<"3">> ->
                    IF IsRaised(year)
                    THEN NotShown("yearly", "error", query)
                    ELSE LET entries == yearly_report_generator(ValueOf(year), file)
                         IN  IF IsRaised(entries)
                             THEN NotShown("yearly", "error", query)
                             ELSE Shown("yearly", query, <<>>, ValueOf(entries))
               [] OTHER -> NotShown("summary", "invalid_choice", query)

\* ------------------------------------------------------------------------
\* The program on a store that was also edited by hand: the file may hold
\* blank lines, which loading_data_helper skips
\* ------------------------------------------------------------------------
EditedLines ==
    { <<>>,
      json_dumps(Record(<<"F">>, <<"i">>, 50, <<"2","0","2","4","-","0","1","-","0","5">>)),
      json_dumps(Record(<<"F">>, <<"i">>, 0, <<"2","0","2","4","-","0","2","-","0","1">>)) }

EditedFiles ==
    UNION { [1..n -> EditedLines] : n \in 0..MaxEditedLines }

InitEdited ==
    /\ file \in EditedFiles
    /\ pc = "menu"
    /\ expenses = <<>>
    /\ last = Last("none", "none", <<>>, NoInput, NoDate, NoRecord)

SpecEdited == InitEdited /\ [][Next]_vars

\* ------------------------------------------------------------------------
\* Claims about the store
\* ------------------------------------------------------------------------
\* list_all: the records a load of the store yields
list_all(f) == loading_data_helper(f)

Updated(l) == l.op = "update" /\ l.outcome = "updated"

Added(l) == l.op = "add" /\ l.outcome = "added"

\* the number typed at the ID prompt
IdOf(l) == ValueOf(int(l.id))

\* C1: an update of record i (1 <= i <= N, N the number of records a load
\* yields) with content r leaves a store whose load has N records, whose
\* record i is r and whose other records are unchanged in content and position.
C1_UpdateRewritesOnlyRecordI ==
    [][Updated(last') =>
         LET old == list_all(file)
             new == list_all(file')
             i == IdOf(last')
         IN  /\ Len(new) = Len(old)
             /\ i \in 1..Len(new)
             /\ new[i] = last'.rec
             /\ \A k \in 1..Len(old) : k # i => new[k] = old[k]]_vars

Parses(date) == ~IsRaised(strptime(date))

\* C2: for every add input whose category and item are non-empty after
\* trimming, list_all after the add is the previous sequence followed by the
\* normalized input: trimmed category and item, the parsed amount or 0.0, the
\* given date or today's date.
C2_AddAppendsNormalizedInput ==
    [][(/\ last'.op = "add"
        /\ strip(last'.input.category) # <<>>
        /\ strip(last'.input.item) # <<>>) =>
         LET old == list_all(file)
             new == list_all(file')
             typed == last'.input
             amount_text == IF strip(typed.amount) = <<>> THEN <<"0">>
                            ELSE strip(typed.amount)
         IN  /\ Len(new) = Len(old) + 1
             /\ SubSeq(new, 1, Len(old)) = old
             /\ new[Len(new)].category = strip(typed.category)
             /\ new[Len(new)].item = strip(typed.item)
             /\ IF IsRaised(float(amount_text))
                THEN new[Len(new)].amount = 0
                ELSE new[Len(new)].amount \in {ValueOf(float(amount_text)), 0}
             /\ new[Len(new)].date =
                  IF Parses(strip(typed.date)) THEN strip(typed.date)
                  ELSE strftime(last'.today)]_vars

\* C3: an update request whose ID is not a number, or is outside 1..N for the
\* N records loaded for the update, leaves the store file as it was.
C3_InvalidIdNeverMutates ==
    [][(/\ last'.op = "update"
        /\ last'.outcome # "listed"
        /\ IF IsRaised(int(last'.id)) THEN TRUE
           ELSE IdOf(last') \notin 1..Len(expenses)) =>
         file' = file]_vars

\* a request with an out-of-range ID was made against a store with records
C3_Witness ==
    /\ last.op = "update"
    /\ last.outcome = "invalid_id"
    /\ list_all(file) # <<>>

\* C6: in an update, a field left blank keeps the value persisted for the
\* record and a field that is supplied takes the supplied value, in every pass
\* of the "update more" loop.
C6_BlankKeepsPersistedValue ==
    [][Updated(last') =>
         LET old == list_all(file)
             new == list_all(file')
             i == IdOf(last')
             typed == last'.input
         IN  /\ i \in 1..Len(old)
             /\ i \in 1..Len(new)
             /\ new[i].category =
                  IF typed.category = <<>> THEN old[i].category ELSE typed.category
             /\ new[i].item =
                  IF typed.item = <<>> THEN old[i].item ELSE typed.item
             /\ new[i].amount =
                  IF typed.amount = <<>> THEN old[i].amount
                  ELSE ValueOf(float(typed.amount))
             /\ typed.date = <<>> => new[i].date = old[i].date
             /\ Parses(typed.date) => new[i].date = typed.date]_vars

\* C7: every persisted record's amount is non-negative.
C7_AmountsNonNegative ==
    \A k \in 1..Len(list_all(file)) : list_all(file)[k].amount >= 0

\* every persisted date parses as YYYY-MM-DD, so the sort of a report's load
\* cannot fail on a date
DatesParse(f) == \A k \in 1..Len(list_all(f)) : Parses(list_all(f)[k].date)

\* C8: every persisted date parses as YYYY-MM-DD; an unparseable date on add
\* is replaced by the current date, and an unparseable date on update leaves
\* the record's previous date.
C8_DatesAlwaysParse ==
    [][/\ DatesParse(file')
       /\ (Added(last') /\ ~Parses(strip(last'.input.date))) =>
            list_all(file')[Len(list_all(file'))].date = strftime(last'.today)
       /\ (Updated(last') /\ ~Parses(last'.input.date) /\ last'.input.date # <<>>) =>
            list_all(file')[IdOf(last')].date = list_all(file)[IdOf(last')].date]_vars

\* C9: no operation ends in an uncontrolled fault.
C9_NoUncontrolledFault == last.outcome \notin {ValueError, "IndexError"}

\* ------------------------------------------------------------------------
\* The reports on stores of records with dates around the edges of weeks,
\* months and years
\* ------------------------------------------------------------------------
ReportRecords ==
    { Record(<<"F">>, <<"i">>, 200, <<"2","0","2","4","-","0","1","-","0","5">>),
      Record(<<"G">>, <<"i">>, 300, <<"2","0","2","4","-","0","1","-","0","5">>),
      Record(<<"F">>, <<"i">>, 100, <<"2","0","2","4","-","0","2","-","0","1">>),
      Record(<<"F">>, <<"i">>, 70, <<"2","0","2","4","-","1","2","-","3","0">>) }

ReportFiles ==
    UNION { [1..n -> {json_dumps(r) : r \in ReportRecords}] : n \in 0..MaxRecords }

YearInputs == { <<"2","0","2","4">>, <<"2","0","2","5">>, <<"x">> }

WeekInputs == { <<"1">>, <<" ","5">> }

MonthInputs ==
    { <<"1">>, <<"j","a","n">>, <<"J","A","N","U","A","R","Y">>, <<"2">>,
      <<"D","e","c">>, <<"x">> }

InitReport ==
    /\ file \in ReportFiles
    /\ pc = "menu"
    /\ expenses = <<>>
    /\ last = Last("none", "none", <<>>, NoInput, NoDate, NoRecord)

Weekly == \E y \in YearInputs, w \in WeekInputs : generate_summary(<<"1">>, y, w)

Monthly == \E y \in YearInputs, m \in MonthInputs : generate_summary(<<"2">>, y, m)

Yearly == \E y \in YearInputs : generate_summary(<<"3">>, y, <<>>)

NoReport == generate_summary(<<"4">>, <<>>, <<>>)

NextReport == Weekly \/ Monthly \/ Yearly \/ NoReport

SpecReport == InitReport /\ [][NextReport]_vars

\* how often the record r occurs in the list
RECURSIVE Count(_, _)
Count(list, r) ==
    IF list = <<>> THEN 0
    ELSE (IF Head(list) = r THEN 1 ELSE 0) + Count(Tail(list), r)

\* the entries are exactly the stored records that pass the test
ExactlyThose(entries, f, Test(_)) ==
    LET stored == list_all(f)
        Elements(list) == {list[k] : k \in 1..Len(list)}
    IN  \A r \in Elements(entries) \cup Elements(stored) :
            Count(entries, r) = IF Test(r) THEN Count(stored, r) ELSE 0

\* ISO 8601: a week runs from Monday to Sunday and belongs to the year that
\* its Thursday is in; week 1 is the week of the year's first Thursday
IsoWeekOf(ymd) ==
    LET day == toordinal(ymd[1], ymd[2], ymd[3])
        thursday == day - ((day + 6) % 7) + 3
        year == CHOOSE y \in (ymd[1] - 1)..(ymd[1] + 1) :
                    /\ toordinal(y, 1, 1) <= thursday
                    /\ thursday <= toordinal(y, 12, 31)
    IN  <<year, ((thursday - toordinal(year, 1, 1)) \div 7) + 1>>

Asked(l, kind) == l.op = kind /\ l.outcome \in {"report", "no_expense"}

\* C4: weekly_report(year, week) returns exactly the stored records whose
\* date has ISO week-numbering year `year` and ISO week `week`.
C4_WeeklyReportIsIsoWeek ==
    Asked(last, "weekly") =>
        LET year == ValueOf(int(last.query[2]))
            week == ValueOf(int(last.query[3]))
        IN  ExactlyThose(last.entries, file,
                         LAMBDA r : IsoWeekOf(DateOf(r)) = <<year, week>>)

\* the first month in calendar order whose name starts with the text,
\* whatever the case; 0 if there is none
MonthNamed(text) ==
    LET named == {m \in 1..12 :
                     /\ Len(text) <= Len(month_name[m])
                     /\ \A k \in 1..Len(text) :
                           LowerChar(text[k]) = LowerChar(month_name[m][k])}
    IN  IF named = {} THEN 0 ELSE CHOOSE m \in named : \A n \in named : m <= n

\* the month that a typed month stands for: its number or the month it names
MonthMeant(text) ==
    IF AllAscii(text) /\ text # <<>> THEN DigitsValue(text) ELSE MonthNamed(text)

\* C5: monthly_report(year, m) returns the bucket key (year, month number,
\* month name) and exactly the stored records of that year and month when
\* there is one, and the not-found signal otherwise, whether m is the month's
\* number or a name or name prefix in any case.
C5_MonthlyReportIsTheMonth ==
    (last.op = "monthly" /\ ~IsRaised(int(strip(last.query[2])))
       /\ MonthMeant(strip(last.query[3])) \in 1..12) =>
        LET year == ValueOf(int(strip(last.query[2])))
            month == MonthMeant(strip(last.query[3]))
            InMonth(r) == LET dt == DateOf(r) IN dt[1] = year /\ dt[2] = month
            stored == list_all(file)
        IN  IF \E k \in 1..Len(stored) : InMonth(stored[k])
            THEN /\ last.outcome = "report"
                 /\ last.key = <<year, month, month_name[month]>>
                 /\ ExactlyThose(last.entries, file, InMonth)
            ELSE /\ last.outcome = "no_expense"
                 /\ last.key = <<>>
                 /\ last.entries = <<>>

\* a month asked for by name was reported from a store that holds records of
\* other months too
C5_Witness ==
    /\ last.op = "monthly"
    /\ last.outcome = "report"
    /\ ~isdigit(strip(last.query[3]))
    /\ Len(last.entries) >= 1
    /\ Len(last.entries) < Len(list_all(file))

\* the datetime a is the datetime b or a later one
NotEarlier(a, b) ==
    \/ a[1] > b[1]
    \/ a[1] = b[1] /\ a[2] > b[2]
    \/ a[1] = b[1] /\ a[2] = b[2] /\ a[3] >= b[3]

\* the records of the list that have the date of the record r, in the
\* list's order
OfTheDay(list, r) == SelectSeq(list, LAMBDA e : DateOf(e) = DateOf(r))

\* C11: in every weekly, monthly and yearly report the returned records are
\* in non-increasing date order, and returned records of equal dates are in
\* the relative order that they have in the store file.
C11_ReportsKeepStableDateOrder ==
    (last.op \in {"weekly", "monthly", "yearly"}
       /\ last.outcome \in {"report", "no_expense"}) =>
        LET entries == last.entries
            stored == list_all(file)
        IN  /\ \A i, j \in 1..Len(entries) :
                   i < j => NotEarlier(DateOf(entries[i]), DateOf(entries[j]))
            /\ \A k \in 1..Len(entries) :
                   OfTheDay(entries, entries[k]) = OfTheDay(stored, entries[k])

\* a report returned two different records of one day and a record of
\* another day, from a store that holds an earlier record before a later one
C11_Witness ==
    /\ last.op \in {"weekly", "monthly", "yearly"}
    /\ last.outcome = "report"
    /\ \E i, j, k \in 1..Len(last.entries) :
          /\ i < j
          /\ last.entries[i] # last.entries[j]
          /\ DateOf(last.entries[i]) = DateOf(last.entries[j])
          /\ DateOf(last.entries[k]) # DateOf(last.entries[i])
    /\ LET stored == list_all(file)
       IN  \E p, q \in 1..Len(stored) :
               p < q /\ ~NotEarlier(DateOf(stored[p]), DateOf(stored[q]))

\* ------------------------------------------------------------------------
\* _month_normalizer_helper on integers and texts
\* ------------------------------------------------------------------------
MaxMonthNumber == 14

Prefixes(name) == { SubSeq(name, 1, n) : n \in 0..Len(name) }

MonthTexts ==
    UNION { Prefixes(month_name[m]) \cup Prefixes(lower(month_name[m]))
              \cup Prefixes(upper(month_name[m])) : m \in 1..12 }
      \cup { <<"x">>, <<"1">>, <<"1", "3">>, <<" ", "j", "a", "n">>,
             <<"m", "a", "y", "o">>, <<"u">> }

MonthArguments ==
    { <<"int", n>> : n \in -1..MaxMonthNumber } \cup { <<"str", t>> : t \in MonthTexts }

NormalizeMonth(month) ==
    /\ pc = "menu"
    /\ last' = [NotShown("normalize", "called", month)
                  EXCEPT !.key = month_normalizer_helper(month)]
    /\ UNCHANGED <<file, pc, expenses>>

InitMonth ==
    /\ file = <<>>
    /\ pc = "menu"
    /\ expenses = <<>>
    /\ last = Last("none", "none", <<>>, NoInput, NoDate, NoRecord)

NextMonth == \E month \in MonthArguments : NormalizeMonth(month)

SpecMonth == InitMonth /\ [][NextMonth]_vars

\* C10: normalize_month returns a month number in 1..12 or fails: an integer
\* 1-12 is returned as is, a text gives the first month in calendar order
\* whose name starts with it in any case, and an input that is neither an
\* integer 1-12 nor a prefix of a month name fails.
C10_NormalizeMonthInRangeOrFails ==
    last.op = "normalize" =>
        LET month == last.query
            result == last.key
        IN  /\ IF IsRaised(result) THEN TRUE ELSE ValueOf(result) \in 1..12
            /\ IF month[1] = "int"
               THEN IF month[2] \in 1..12 THEN result = Returned(month[2])
                    ELSE IsRaised(result)
               ELSE IF MonthNamed(month[2]) = 0 THEN IsRaised(result)
                    ELSE result = Returned(MonthNamed(month[2]))

====
